---- MODULE Spec2Model ----
(***************************************************************************)
(* Election lifecycle and context binding of the mediator API              *)
(* (app/api/v1/mediator/election.py): submit, get, open/close/publish and  *)
(* build-context, over the Election Repository and the Manifest Store.     *)
(***************************************************************************)
EXTENDS Integers, Sequences, FiniteSets, TLC

VARIABLES store, manifests, issued, pc, req, query_result, resp, chain, stale, conn

vars == <<store, manifests, issued, pc, req, query_result, resp, chain, stale, conn>>

(* ------------------------------ bounds --------------------------------- *)

\* number of identifiers uuid4() may hand out in one run
MaxUuid == 2

(* ------------------------------ values --------------------------------- *)

\* request workers: each HTTP request is handled by one of them
Procs == {"p1", "p2"}

\* Optional[str] election ids: None, the empty string, or a value
NoneId == <<"none", 0>>
EmptyId == <<"empty", 0>>
ClientIds == {<<"client", 1>>}
Uuids == {<<"uuid", i>> : i \in 1..MaxUuid}

Manifests == {"m1", "m2"}
Hashes == {"h1", "h2"}
NoManifest == "None"
NoHash == "None"
EmptyHash == ""

\* guardian counts and quorums a context may carry
Guardians == {1, 2, 3}
Keys == {"K"}
Commitments == {"Q"}

\* ElectionState
ElectionState == {"CREATED", "OPEN", "CLOSED", "PUBLISHED"}

(* ------------------- library calls used by the handlers ---------------- *)

\* Manifest.crypto_hash()
crypto_hash(manifest) == IF manifest = "m1" THEN "h1" ELSE "h2"

\* serialized forms are tagged values, typed objects the bare value
Manifest_from_json_object(json) == json[2]
Manifest_to_json_object(manifest) == <<"Manifest", manifest>>
Context_from_json_object(json) == json[2]
Context_to_json_object(context) == <<"CiphertextElectionContext", context>>

ManifestJson == {Manifest_to_json_object(m) : m \in Manifests}
NoJson == <<"None", "None">>

\* make_ciphertext_election_context(number_of_guardians, quorum, key, commitment, manifest_hash)
make_ciphertext_election_context(n, k, key, commitment, manifest_hash) ==
    [number_of_guardians |-> n, quorum |-> k, elgamal_public_key |-> key,
     commitment_hash |-> commitment, manifest_hash |-> manifest_hash]

\* str(uuid4()): an identifier never handed out before
uuid4(n) == <<"uuid", n + 1>>

\* Python truthiness of an Optional[str]
Truthy(s) == s # NoneId /\ s # EmptyId
TruthyHash(h) == h # NoHash /\ h # EmptyHash

(* --------------------------- collaborators ----------------------------- *)

\* Manifest Store: get_manifest(hash) -> Manifest | NotFound
get_manifest(ms, manifest_hash) == ms[manifest_hash]

\* Election Repository, keyed by election_id
repository_get(st, election_id) ==
    IF election_id \in DOMAIN st THEN <<st[election_id]>> ELSE << >>

repository_set(st, document) ==
    [i \in DOMAIN st \cup {document.election_id} |->
        IF i = document.election_id THEN document ELSE st[i]]

repository_update(st, election_id, document) ==
    [i \in DOMAIN st |-> IF i = election_id THEN document ELSE st[i]]

\* "with get_repository(...) as repository": the connection is held by the
\* handler from entry until the block is left, by return or by exception
repository_enter(c, who) == c \cup {who}

repository_exit_on_return_only(c, who, raised) ==
    IF raised THEN c ELSE c \ {who}

repository_exit(c, who, raised) == c \ {who}

(* ------------------------------ responses ------------------------------ *)

\* what the last finished request was given and what it answered:
\* requested is the election id the caller named (NoneId when it named none),
\* inline tells whether the request carried a manifest, request echoes the
\* arguments of the request, replaced is the state an update overwrote,
\* tally is the tally a tally request produced, guardian the guardian an
\* InvalidShare answer names
NoResp == [op |-> "none", election_id |-> NoneId, status |-> "OK",
           requested |-> NoneId, inline |-> FALSE, request |-> << >>,
           context |-> << >>, manifest |-> NoManifest,
           elections |-> << >>, replaced |-> "none",
           tally |-> << >>, guardian |-> "none"]

Response(op, election_id, status) ==
    [NoResp EXCEPT !.op = op, !.election_id = election_id, !.status = status]

\* "except Exception as error: raise HTTPException(500)" around a handler
\* body: every exception raised inside the try block, HTTPException
\* included, leaves as 500
except_Exception(status) == IF status = "OK" THEN "OK" ELSE "Internal"

NoChain == [by |-> "nobody", id |-> NoneId, stage |-> 0, late |-> FALSE]
NoReq == [op |-> "none", election_id |-> NoneId, new_state |-> "CREATED"]

\* a Manifest Store that files every manifest under its own hash
Registered == [h \in Hashes |-> CHOOSE m \in Manifests : crypto_hash(m) = h]

Init ==
    /\ store = << >>
    /\ manifests = Registered
    /\ issued = 0
    /\ pc = [p \in Procs |-> "idle"]
    /\ req = [p \in Procs |-> NoReq]
    /\ query_result = [p \in Procs |-> << >>]
    /\ resp = NoResp
    /\ chain = NoChain
    /\ stale = FALSE
    /\ conn = {}

(* ------------------------------ inputs --------------------------------- *)

\* election ids a caller can put in a request: None, "", its own ids and
\* the generated ids it has been given back so far
KnownIds == ClientIds \cup {<<"uuid", i>> : i \in 1..issued}
OptionalIds == {NoneId, EmptyId} \cup KnownIds
\* ids a caller can ask about, stored or not
AnyIds == ClientIds \cup Uuids \cup {<<"client", 2>>}
OptionalHashes == {NoHash, EmptyHash} \cup Hashes

Contexts ==
    {make_ciphertext_election_context(n, k, key, c, h) :
        n \in Guardians, k \in Guardians, key \in Keys, c \in Commitments,
        h \in Hashes}
\* the contexts submitted: one key ceremony, any manifest hash
CeremonyContexts == {c \in Contexts : c.number_of_guardians = 2 /\ c.quorum = 2}

Election(election_id, state, context, manifest) ==
    [election_id |-> election_id, state |-> state,
     context |-> context, manifest |-> manifest]

(* ------------------------ history bookkeeping -------------------------- *)

\* chain follows one caller through its Open, Close, Publish calls on one
\* election: stage counts the calls completed in that order, late records a
\* write that lands after the Publish from a call that had begun before it
Expected(stage) ==
    IF stage = 0 THEN "open" ELSE IF stage = 1 THEN "close" ELSE "publish"

ChainOnSubmit(election_id) ==
    IF chain.stage > 0 /\ chain.id = election_id THEN NoChain ELSE chain

ChainOnBegin(p, op, election_id) ==
    IF chain.stage = 3
    THEN IF chain.id = election_id \/ chain.by = p THEN NoChain ELSE chain
    ELSE IF chain.by = p /\ ~(election_id = chain.id /\ op = Expected(chain.stage))
         THEN NoChain
         ELSE chain

ChainOnWrite(p, op, election_id) ==
    IF chain.stage = 3
    THEN IF chain.id = election_id THEN [chain EXCEPT !.late = TRUE] ELSE chain
    ELSE IF chain.by = p
         THEN [chain EXCEPT !.stage = @ + 1]
         ELSE IF chain.stage = 0 /\ op = "open"
              THEN [by |-> p, id |-> election_id, stage |-> 1, late |-> FALSE]
              ELSE chain

(* ------------------------------ handlers ------------------------------- *)

\* GET "": get_election
get_election(election_id) ==
    LET result == repository_get(store, election_id)
        raised == IF result = << >> THEN "NotFound" ELSE "OK"
    IN  /\ resp' = [Response("get", election_id, except_Exception(raised))
                      EXCEPT !.elections = result]
        /\ conn' = repository_exit(repository_enter(conn, "get_election"),
                                   "get_election", result = << >>)
        /\ UNCHANGED <<store, manifests, issued, pc, req, query_result, chain, stale>>

resolve_election_id_none_only(query_id, body_id, n) ==
    LET first == IF query_id = NoneId THEN body_id ELSE query_id
    IN  IF first = NoneId THEN uuid4(n) ELSE first

resolve_election_id_always_fresh(query_id, body_id, n) == uuid4(n)

\* the id create_election files the election under
resolve_election_id(query_id, body_id, n) ==
    LET first == IF ~Truthy(query_id) THEN body_id ELSE query_id
    IN  IF ~Truthy(first) THEN uuid4(n) ELSE first

resolve_manifest_store_first(ms, manifest_json, context) ==
    IF get_manifest(ms, context.manifest_hash) # NoManifest
    THEN get_manifest(ms, context.manifest_hash)
    ELSE Manifest_from_json_object(manifest_json)

\* the manifest create_election validates and stores
resolve_manifest(ms, manifest_json, context) ==
    IF manifest_json # NoJson
    THEN Manifest_from_json_object(manifest_json)
    ELSE get_manifest(ms, context.manifest_hash)

hash_matches_unchecked(context, manifest) == TRUE

hash_matches_inverted(context, manifest) ==
    context.manifest_hash # crypto_hash(manifest)

\* "validate that the context was built against the correct manifest"
hash_matches(context, manifest) ==
    context.manifest_hash = crypto_hash(manifest)

submitted_election_open(election_id, context, manifest) ==
    Election(election_id, "OPEN", Context_to_json_object(context),
             Manifest_to_json_object(manifest))

\* the Election create_election builds
submitted_election(election_id, context, manifest) ==
    Election(election_id, "CREATED", Context_to_json_object(context),
             Manifest_to_json_object(manifest))

\* a variant that files the election before it validates the hash
create_election_stores_first(query_id, body_id, context_json, manifest_json) ==
    LET election_id == resolve_election_id(query_id, body_id, issued)
        generated == election_id = uuid4(issued)
        requested == IF Truthy(query_id) THEN query_id
                     ELSE IF Truthy(body_id) THEN body_id ELSE NoneId
        context == Context_from_json_object(context_json)
        manifest == resolve_manifest(manifests, manifest_json, context)
        election == submitted_election(election_id, context, manifest)
        status == IF manifest = NoManifest THEN "NotFound"
                  ELSE IF ~hash_matches(context, manifest)
                       THEN "PreconditionFailed"
                       ELSE "OK"
    IN  /\ generated => issued < MaxUuid
        /\ issued' = IF generated THEN issued + 1 ELSE issued
        /\ store' = IF manifest # NoManifest THEN repository_set(store, election)
                    ELSE store
        /\ resp' = [Response("submit", election_id, status)
                      EXCEPT !.requested = requested,
                             !.inline = (manifest_json # NoJson),
                             !.request = <<manifest_json>>,
                             !.context = <<context_json>>,
                             !.manifest = manifest]
        /\ chain' = IF status = "OK" THEN ChainOnSubmit(election_id) ELSE chain
        /\ stale' = IF status = "OK" THEN FALSE ELSE stale
        /\ UNCHANGED <<manifests, pc, req, query_result, conn>>

\* PUT "": create_election
create_election(query_id, body_id, context_json, manifest_json) ==
    LET election_id == resolve_election_id(query_id, body_id, issued)
        generated == election_id = uuid4(issued)
        requested == IF Truthy(query_id) THEN query_id
                     ELSE IF Truthy(body_id) THEN body_id ELSE NoneId
        context == Context_from_json_object(context_json)
        manifest == resolve_manifest(manifests, manifest_json, context)
        election == submitted_election(election_id, context, manifest)
        status == IF manifest = NoManifest THEN "NotFound"
                  ELSE IF ~hash_matches(context, manifest)
                       THEN "PreconditionFailed"
                       ELSE "OK"
    IN  /\ generated => issued < MaxUuid
        /\ issued' = IF generated THEN issued + 1 ELSE issued
        /\ store' = IF status = "OK" THEN repository_set(store, election) ELSE store
        /\ resp' = [Response("submit", election_id, status)
                      EXCEPT !.requested = requested,
                             !.inline = (manifest_json # NoJson),
                             !.request = <<manifest_json>>,
                             !.context = <<context_json>>,
                             !.manifest = manifest]
        /\ chain' = IF status = "OK" THEN ChainOnSubmit(election_id) ELSE chain
        /\ stale' = IF status = "OK" THEN FALSE ELSE stale
        /\ conn' = IF status = "OK"
                   THEN repository_exit(repository_enter(conn, "create_election"),
                                        "create_election", FALSE)
                   ELSE conn
        /\ UNCHANGED <<manifests, pc, req, query_result>>

\* _update_election_state, up to repository.get: a missing election raises
\* 404 inside the try block
update_election_state_get(p, op, election_id, new_state) ==
    LET result == repository_get(store, election_id)
    IN  /\ pc[p] = "idle"
        /\ IF result = << >>
           THEN /\ resp' = Response(op, election_id, except_Exception("NotFound"))
                /\ conn' = repository_exit(repository_enter(conn, p), p, TRUE)
                /\ UNCHANGED <<pc, req, query_result>>
           ELSE /\ pc' = [pc EXCEPT ![p] = "fetched"]
                /\ req' = [req EXCEPT ![p] = [op |-> op, election_id |-> election_id,
                                              new_state |-> new_state]]
                /\ query_result' = [query_result EXCEPT ![p] = result]
                /\ conn' = repository_enter(conn, p)
                /\ UNCHANGED resp
        /\ chain' = ChainOnBegin(p, op, election_id)
        /\ UNCHANGED <<store, manifests, issued, stale>>

\* POST /open
open_election(p, election_id) ==
    update_election_state_get(p, "open", election_id, "OPEN")

\* POST /close
close_election(p, election_id) ==
    update_election_state_get(p, "close", election_id, "CLOSED")

publish_election_closes(p, election_id) ==
    update_election_state_get(p, "publish", election_id, "CLOSED")

\* POST /publish
publish_election(p, election_id) ==
    update_election_state_get(p, "publish", election_id, "PUBLISHED")

updated_election_keeps_state(result, new_state) ==
    Election(result.election_id, result.state, result.context, result.manifest)

\* the Election _update_election_state writes back
updated_election(result, new_state) ==
    Election(result.election_id, new_state, result.context, result.manifest)

\* a compare-before-write variant: a write over a document that changed
\* since it was read is refused
update_election_state_update_guarded(p) ==
    LET election_id == req[p].election_id
        election == updated_election(query_result[p][1], req[p].new_state)
        fresh == store[election_id] = query_result[p][1]
    IN  /\ pc[p] = "fetched"
        /\ store' = IF fresh THEN repository_update(store, election_id, election)
                    ELSE store
        /\ resp' = [Response(req[p].op, election_id,
                             IF fresh THEN "OK" ELSE "Internal")
                      EXCEPT !.replaced = store[election_id].state]
        /\ stale' = ~fresh
        /\ chain' = ChainOnWrite(p, req[p].op, election_id)
        /\ pc' = [pc EXCEPT ![p] = "idle"]
        /\ req' = [req EXCEPT ![p] = NoReq]
        /\ query_result' = [query_result EXCEPT ![p] = << >>]
        /\ conn' = repository_exit(conn, p, FALSE)
        /\ UNCHANGED <<manifests, issued>>

\* _update_election_state, repository.update and the response
update_election_state_update(p) ==
    LET election_id == req[p].election_id
        election == updated_election(query_result[p][1], req[p].new_state)
    IN  /\ pc[p] = "fetched"
        /\ store' = repository_update(store, election_id, election)
        /\ resp' = [Response(req[p].op, election_id, except_Exception("OK"))
                      EXCEPT !.replaced = store[election_id].state]
        /\ stale' = (store[election_id] # query_result[p][1])
        /\ chain' = ChainOnWrite(p, req[p].op, election_id)
        /\ pc' = [pc EXCEPT ![p] = "idle"]
        /\ req' = [req EXCEPT ![p] = NoReq]
        /\ query_result' = [query_result EXCEPT ![p] = << >>]
        /\ conn' = repository_exit(conn, p, FALSE)
        /\ UNCHANGED <<manifests, issued>>

resolve_context_manifest_inline_first(ms, query_hash, body_hash, manifest_json) ==
    LET manifest_hash == IF ~TruthyHash(query_hash) THEN body_hash ELSE query_hash
    IN  IF manifest_json # NoJson
        THEN Manifest_from_json_object(manifest_json)
        ELSE IF TruthyHash(manifest_hash) THEN get_manifest(ms, manifest_hash)
             ELSE NoManifest

\* the manifest build_election_context builds against
resolve_context_manifest(ms, query_hash, body_hash, manifest_json) ==
    LET manifest_hash == IF ~TruthyHash(query_hash) THEN body_hash ELSE query_hash
    IN  IF TruthyHash(manifest_hash)
        THEN get_manifest(ms, manifest_hash)
        ELSE IF manifest_json = NoJson THEN NoManifest
             ELSE Manifest_from_json_object(manifest_json)

\* POST /context: build_election_context
build_election_context(query_hash, body_hash, manifest_json, n, k, key, commitment) ==
    LET manifest_hash == IF ~TruthyHash(query_hash) THEN body_hash ELSE query_hash
        manifest == resolve_context_manifest(manifests, query_hash, body_hash, manifest_json)
        status == IF manifest # NoManifest THEN "OK"
                  ELSE IF TruthyHash(manifest_hash) THEN "NotFound" ELSE "Internal"
        context == make_ciphertext_election_context(n, k, key, commitment,
                                                    crypto_hash(manifest))
    IN  /\ resp' = [Response("context", NoneId, status)
                      EXCEPT !.request = <<query_hash, body_hash, manifest_json, n, k>>,
                             !.context = IF status = "OK"
                                         THEN <<Context_to_json_object(context)>>
                                         ELSE << >>]
        /\ UNCHANGED <<store, manifests, issued, pc, req, query_result, chain, stale, conn>>

(* --------------------------- specifications ---------------------------- *)

\* lifecycle: one caller-named election, raced by two request workers
Next ==
    \/ \E query_id \in ClientIds, context \in CeremonyContexts,
          manifest_json \in ManifestJson \cup {NoJson} :
            create_election(query_id, NoneId, Context_to_json_object(context), manifest_json)
    \/ \E election_id \in AnyIds : get_election(election_id)
    \/ \E p \in Procs, election_id \in AnyIds : open_election(p, election_id)
    \/ \E p \in Procs, election_id \in AnyIds : close_election(p, election_id)
    \/ \E p \in Procs, election_id \in AnyIds : publish_election(p, election_id)
    \/ \E p \in Procs : update_election_state_update(p)

Spec == Init /\ [][Next]_vars

\* submit, over every Manifest Store and every way to name the election, and
\* transitions on elections that are not stored
InitSubmit ==
    /\ store = << >>
    /\ manifests \in [Hashes -> Manifests \cup {NoManifest}]
    /\ issued = 0
    /\ pc = [p \in Procs |-> "idle"]
    /\ req = [p \in Procs |-> NoReq]
    /\ query_result = [p \in Procs |-> << >>]
    /\ resp = NoResp
    /\ chain = NoChain
    /\ stale = FALSE
    /\ conn = {}

NextSubmit ==
    \/ \E query_id \in OptionalIds, body_id \in {NoneId, EmptyId} \cup ClientIds,
          context \in CeremonyContexts, manifest_json \in ManifestJson \cup {NoJson} :
            create_election(query_id, body_id, Context_to_json_object(context), manifest_json)
    \/ \E p \in Procs, election_id \in AnyIds \ DOMAIN store :
            \/ open_election(p, election_id)
            \/ close_election(p, election_id)
            \/ publish_election(p, election_id)

SpecSubmit == InitSubmit /\ [][NextSubmit]_vars

\* build-context, over every Manifest Store
NextContext ==
    \E query_hash \in OptionalHashes, body_hash \in OptionalHashes,
       manifest_json \in ManifestJson \cup {NoJson},
       n \in Guardians, k \in Guardians, key \in Keys, commitment \in Commitments :
         build_election_context(query_hash, body_hash, manifest_json, n, k, key, commitment)

SpecContext == InitSubmit /\ [][NextContext]_vars

(* ------------------------------- tallies ------------------------------- *)

TallyIds == {"tally-1", "tally-2"}
GuardianIds == {"g1", "g2", "g3"}
BallotSets == {{}, {"b1"}}

\* the contexts tally requests carry: one guardian count, any quorum and hash
TallyContexts == {c \in Contexts : c.number_of_guardians = 3}

\* PublishedCiphertextTally payloads: the object_id and what the tally was
\* built against
EncryptedTallies ==
    {<<"PublishedCiphertextTally",
       [object_id |-> id, manifest |-> m, context |-> c]>> :
        id \in TallyIds, m \in Manifests,
        c \in {x \in TallyContexts : x.quorum = 2}}

\* read_json_object(encrypted_tally, electionguard.tally.PublishedCiphertextTally)
read_json_object(json) == json[2]

\* electionguard.tally.CiphertextTally(object_id, description, context)
CiphertextTally(object_id, description, context) ==
    [object_id |-> object_id, manifest |-> description, context |-> context]

convert_tally_keeps_binding(encrypted_tally, description, context) ==
    LET published_tally == read_json_object(encrypted_tally)
    IN  CiphertextTally(published_tally.object_id, published_tally.manifest,
                        published_tally.context)

\* convert_tally
convert_tally(encrypted_tally, description, context) ==
    LET published_tally == read_json_object(encrypted_tally)
    IN  CiphertextTally(published_tally.object_id, description, context)

\* a caller of convert_tally
convert(encrypted_tally, description, context) ==
    /\ resp' = [Response("convert", NoneId, "OK")
                  EXCEPT !.request = <<encrypted_tally, description, context>>,
                         !.tally = <<convert_tally(encrypted_tally, description, context)>>]
    /\ UNCHANGED <<store, manifests, issued, pc, req, query_result, chain, stale, conn>>

append_consistent_unchecked(published_tally, description, context) == TRUE

\* Append's validation: the existing tally was built against the manifest
\* and the context the request supplies
append_consistent(published_tally, description, context) ==
    /\ published_tally.manifest = description
    /\ published_tally.context = context

\* Append: AppendTallyRequest(ballots, description, context, encrypted_tally)
append_tally(ballots, description_json, context_json, encrypted_tally) ==
    LET description == Manifest_from_json_object(description_json)
        context == Context_from_json_object(context_json)
        consistent == append_consistent(read_json_object(encrypted_tally),
                                        description, context)
    IN  /\ resp' = [Response("append", NoneId,
                             IF consistent THEN "OK" ELSE "Inconsistent")
                      EXCEPT !.request = <<encrypted_tally, description, context, ballots>>,
                             !.tally = IF consistent
                                       THEN <<convert_tally(encrypted_tally, description, context)>>
                                       ELSE << >>]
        /\ UNCHANGED <<store, manifests, issued, pc, req, query_result, chain, stale, conn>>

\* the guardians whose share's proof verifies, and those whose does not
ValidShares(shares) == {g \in DOMAIN shares : shares[g] = "valid"}
InvalidShares(shares) == {g \in DOMAIN shares : shares[g] = "invalid"}

decrypt_status_drops_invalid(shares, quorum) ==
    IF Cardinality(ValidShares(shares)) < quorum THEN "InsufficientShares" ELSE "OK"

decrypt_status_counts_all(shares, quorum) ==
    IF InvalidShares(shares) # {} THEN "InvalidShare"
    ELSE IF Cardinality(DOMAIN shares) + 1 < quorum THEN "InsufficientShares"
         ELSE "OK"

\* the Threshold Decryption Coordinator's verdict on a set of shares
decrypt_status(shares, quorum) ==
    IF InvalidShares(shares) # {} THEN "InvalidShare"
    ELSE IF Cardinality(ValidShares(shares)) < quorum THEN "InsufficientShares"
         ELSE "OK"

\* Decrypt: DecryptTallyRequest(encrypted_tally, shares, description, context)
decrypt_tally(encrypted_tally, shares, description_json, context_json, offender) ==
    LET description == Manifest_from_json_object(description_json)
        context == Context_from_json_object(context_json)
        status == decrypt_status(shares, context.quorum)
    IN  /\ status = "InvalidShare" => offender \in InvalidShares(shares)
        /\ status # "InvalidShare" => offender = "none"
        /\ resp' = [Response("decrypt", NoneId, status)
                      EXCEPT !.request = <<encrypted_tally, description, context, shares>>,
                             !.guardian = offender,
                             !.tally = IF status = "OK"
                                       THEN <<convert_tally(encrypted_tally, description, context)>>
                                       ELSE << >>]
        /\ UNCHANGED <<store, manifests, issued, pc, req, query_result, chain, stale, conn>>

\* the share mappings a Decrypt request can carry
ShareMaps ==
    UNION {[gs -> {"valid", "invalid"}] : gs \in SUBSET GuardianIds}

\* tally conversion, Append and Decrypt
NextTally ==
    \/ \E encrypted_tally \in EncryptedTallies, description \in Manifests,
          context \in TallyContexts :
            convert(encrypted_tally, description, context)
    \/ \E ballots \in BallotSets, description \in Manifests,
          context \in {c \in TallyContexts : c.quorum \in {2, 3}},
          encrypted_tally \in EncryptedTallies :
            append_tally(ballots, Manifest_to_json_object(description),
                         Context_to_json_object(context), encrypted_tally)
    \/ \E encrypted_tally \in {t \in EncryptedTallies : t[2].object_id = "tally-1"},
          shares \in ShareMaps, description \in {"m1"},
          context \in {c \in TallyContexts : c.manifest_hash = "h1"},
          offender \in GuardianIds \cup {"none"} :
            decrypt_tally(encrypted_tally, shares, Manifest_to_json_object(description),
                          Context_to_json_object(context), offender)

SpecTally == Init /\ [][NextTally]_vars

(* ------------------------------- claims -------------------------------- *)

UpdateOps == {"open", "close", "publish"}
Target(op) == IF op = "open" THEN "OPEN" ELSE IF op = "close" THEN "CLOSED" ELSE "PUBLISHED"

\* the hash a submitted context declares
DeclaredHash(r) == Context_from_json_object(r.context[1]).manifest_hash

\* a Submit whose manifest was resolved and whose context declares another hash
Mismatched(r) ==
    /\ r.op = "submit"
    /\ r.manifest # NoManifest
    /\ DeclaredHash(r) # crypto_hash(r.manifest)

\* C1: a Submit whose context declares a manifest_hash other than the crypto
\* hash of the resolved manifest (inline, or looked up in the Manifest Store)
\* is answered PreconditionFailed and stores nothing
C1_MismatchRejected ==
    [][Mismatched(resp') => resp'.status = "PreconditionFailed" /\ store' = store]_vars

\* the Manifest Store answered the lookup of h with a manifest of another
\* hash and the Submit was refused
C1_Witness ==
    /\ Mismatched(resp)
    /\ ~resp.inline
    /\ manifests[DeclaredHash(resp)] = resp.manifest
    /\ resp.status = "PreconditionFailed"
    /\ store = << >>

\* C2: every stored election's context declares the crypto hash of the
\* manifest stored with it
C2_StoredHashBound ==
    \A id \in DOMAIN store :
        Context_from_json_object(store[id].context).manifest_hash
            = crypto_hash(Manifest_from_json_object(store[id].manifest))

\* an election that was re-submitted while a transition was in flight and
\* then written back by that transition
C2_Witness ==
    /\ stale
    /\ \E id \in DOMAIN store : store[id].state # "CREATED"
    /\ \E p \in Procs : pc[p] = "fetched"

\* C3: Get, Open, Close and Publish on an election id that is not stored
\* answer NotFound
C3_MissingIsNotFound ==
    (resp.op \in UpdateOps \cup {"get"} /\ resp.election_id \notin DOMAIN store)
        => resp.status = "NotFound"

\* C4 as stated: once a caller has completed Open, Close, Publish on an
\* election and every call that raced with them has finished, the stored
\* state is PUBLISHED
C4_AlwaysPublished ==
    (chain.stage = 3 /\ \A p \in Procs : pc[p] = "idle")
        => store[chain.id].state = "PUBLISHED"

\* C4 amended: after a caller's Open, Close, Publish the stored state is
\* PUBLISHED unless a call that began before the Publish completed wrote
\* after it
C4_PublishedUnlessLateWrite ==
    (chain.stage = 3 /\ ~chain.late) => store[chain.id].state = "PUBLISHED"

\* the sequence completed although another call's write landed between
\* the Publish's read and its write
C4_Witness ==
    /\ chain.stage = 3
    /\ ~chain.late
    /\ stale
    /\ resp.op = "publish"
    /\ store[chain.id].state = "PUBLISHED"

\* C5: a transition on a stored election is never refused, and its write
\* answers OK and leaves the target state, whatever state it replaces
C5_TransitionsUnconditional ==
    /\ [](resp.op \in UpdateOps /\ resp.status # "OK"
            => resp.election_id \notin DOMAIN store)
    /\ [][\A p \in Procs :
            (pc[p] = "fetched" /\ pc'[p] = "idle")
                => /\ resp'.status = "OK"
                   /\ resp'.op = req[p].op
                   /\ store'[req[p].election_id].state = Target(req[p].op)]_vars

\* Open after Publish succeeded and reverted the state to OPEN
C5_Witness ==
    /\ resp.op = "open"
    /\ resp.status = "OK"
    /\ resp.replaced = "PUBLISHED"
    /\ ~stale
    /\ store[resp.election_id].state = "OPEN"

\* C6: when two transitions run concurrently on one election, each write
\* answers OK, including the write over a document that changed since it
\* was read, and leaves its own target state: the last write wins
C6_LastWriteWins ==
    [][\A p \in Procs :
        (/\ pc[p] = "fetched" /\ pc'[p] = "idle"
         /\ \/ store[req[p].election_id] # query_result[p][1]
            \/ \E q \in Procs \ {p} :
                  pc[q] = "fetched" /\ req[q].election_id = req[p].election_id)
            => /\ resp'.status = "OK"
               /\ store'[req[p].election_id].state = Target(req[p].op)
               /\ \A q \in Procs \ {p} : pc'[q] = pc[q] /\ req'[q] = req[q]]_vars

\* Close read the election, a concurrent Open wrote OPEN, then Close wrote
\* CLOSED over it and was answered OK
C6_Witness ==
    /\ stale
    /\ resp.op = "close"
    /\ resp.status = "OK"
    /\ resp.replaced = "OPEN"
    /\ store[resp.election_id].state = "CLOSED"

\* C7: after a successful Submit the repository holds an election under the
\* returned id, in state CREATED
C7_SubmittedIsCreated ==
    (resp.op = "submit" /\ resp.status = "OK")
        => /\ resp.election_id \in DOMAIN store
           /\ store[resp.election_id].election_id = resp.election_id
           /\ store[resp.election_id].state = "CREATED"

\* a Submit with a generated id succeeded
C7_Witness ==
    /\ resp.op = "submit"
    /\ resp.status = "OK"
    /\ resp.requested = NoneId
    /\ resp.election_id \in DOMAIN store

\* C8: a successful Submit that names no election id (absent or empty)
\* returns an id under which nothing is stored yet, so no two such Submits
\* return the same id
C8_GeneratedIdsFresh ==
    [][(resp'.op = "submit" /\ resp'.status = "OK" /\ resp'.requested = NoneId)
        => (Truthy(resp'.election_id) /\ resp'.election_id \notin DOMAIN store)]_vars

\* the second generated id, with a caller-named election and the first
\* generated one already stored
C8_Witness ==
    /\ resp.op = "submit"
    /\ resp.status = "OK"
    /\ resp.requested = NoneId
    /\ resp.election_id = <<"uuid", 2>>
    /\ ClientIds \cup {<<"uuid", 1>>} \subseteq DOMAIN store

\* two consecutive answers to the same Submit naming the same election id
SameSubmit(r1, r2) ==
    /\ r1.op = "submit" /\ r2.op = "submit"
    /\ r1.status = "OK" /\ r2.status = "OK"
    /\ r2.requested # NoneId
    /\ r1.requested = r2.requested
    /\ r1.context = r2.context
    /\ r1.inline = r2.inline
    /\ r1.manifest = r2.manifest

Designated(r) ==
    LET given == IF TruthyHash(r.request[1]) THEN r.request[1] ELSE r.request[2]
    IN  IF TruthyHash(given) THEN manifests[given]
        ELSE Manifest_from_json_object(r.request[3])

\* C10: the context build-context returns declares the crypto hash of the
\* designated manifest, whatever hash the caller supplied
C10_ContextHashOfResolved ==
    (resp.op = "context" /\ resp.status = "OK")
        => Context_from_json_object(resp.context[1]).manifest_hash
               = crypto_hash(Designated(resp))

\* the caller gave a hash and an inline manifest, the Manifest Store
\* answered with a manifest of another hash, and the context declares that
\* manifest's hash
C10_Witness ==
    /\ resp.op = "context"
    /\ resp.status = "OK"
    /\ TruthyHash(resp.request[1])
    /\ resp.request[3] # NoJson
    /\ Context_from_json_object(resp.context[1]).manifest_hash # resp.request[1]
    /\ crypto_hash(Manifest_from_json_object(resp.request[3])) = resp.request[1]

\* C11: a build-context request whose quorum exceeds its number of
\* guardians (and whose manifest resolves) is answered InvalidArgument, so no returned context has
\* quorum > number_of_guardians
C11_QuorumAboveGuardiansRejected ==
    (/\ resp.op = "context"
     /\ resp.request[5] > resp.request[4]
     /\ Designated(resp) # NoManifest)
        => /\ resp.status = "InvalidArgument"
           /\ resp.context = << >>

\* C12: a Submit that carries an inline manifest validates and stores that
\* manifest, whatever the Manifest Store holds under the context's hash; a
\* Submit without one takes the Manifest Store's answer for that hash
C12_InlineManifestOverrides ==
    resp.op = "submit" =>
        IF resp.request[1] # NoJson
        THEN /\ resp.manifest = Manifest_from_json_object(resp.request[1])
             /\ resp.status = IF DeclaredHash(resp) = crypto_hash(resp.manifest)
                              THEN "OK" ELSE "PreconditionFailed"
             /\ resp.status = "OK" => store[resp.election_id].manifest = resp.request[1]
        ELSE /\ resp.manifest = manifests[DeclaredHash(resp)]
             /\ resp.status = "OK"
                   => Manifest_from_json_object(store[resp.election_id].manifest)
                          = manifests[DeclaredHash(resp)]

\* an inline manifest was stored although the Manifest Store holds another
\* manifest under the context's hash
C12_Witness ==
    /\ resp.op = "submit"
    /\ resp.status = "OK"
    /\ resp.request[1] # NoJson
    /\ manifests[DeclaredHash(resp)] \in Manifests
    /\ manifests[DeclaredHash(resp)] # Manifest_from_json_object(resp.request[1])
    /\ store[resp.election_id].manifest = resp.request[1]

\* the tally an Append or convert request carries was built against another
\* manifest or context than the request supplies
BuiltElsewhere(r) ==
    \/ read_json_object(r.request[1]).manifest # r.request[2]
    \/ read_json_object(r.request[1]).context # r.request[3]

\* C13: an Append whose existing tally was built against a manifest or a
\* context other than those of the request is answered Inconsistent and
\* yields no converted tally
C13_AppendMismatchInconsistent ==
    (resp.op = "append" /\ BuiltElsewhere(resp))
        => resp.status = "Inconsistent" /\ resp.tally = << >>

\* an Append was refused for a tally built against the same manifest but
\* another context
C13_Witness ==
    /\ resp.op = "append"
    /\ read_json_object(resp.request[1]).manifest = resp.request[2]
    /\ read_json_object(resp.request[1]).context # resp.request[3]
    /\ resp.status = "Inconsistent"

\* C14: convert_tally returns a tally with the encrypted tally's object_id,
\* bound to the manifest and the context it was given
C14_ConvertKeepsIdBindsArguments ==
    resp.op = "convert"
        => /\ resp.tally[1].object_id = read_json_object(resp.request[1]).object_id
           /\ resp.tally[1].manifest = resp.request[2]
           /\ resp.tally[1].context = resp.request[3]

\* a tally built against another manifest and context was converted and
\* came out bound to the supplied ones
C14_Witness ==
    /\ resp.op = "convert"
    /\ read_json_object(resp.request[1]).manifest # resp.request[2]
    /\ read_json_object(resp.request[1]).context # resp.request[3]
    /\ resp.tally[1].object_id = "tally-2"
    /\ resp.tally[1].manifest = resp.request[2]

\* C15: Decrypt succeeds only with at least quorum proof-valid shares of
\* distinct guardians; exactly quorum valid shares succeed, quorum - 1 valid
\* shares fail with InsufficientShares
C15_QuorumOfValidShares ==
    resp.op = "decrypt" =>
        LET shares == resp.request[4]
            quorum == resp.request[3].quorum
            valid == Cardinality(ValidShares(shares))
        IN  /\ resp.status = "OK" => valid >= quorum
            /\ (InvalidShares(shares) = {} /\ valid = quorum) => resp.status = "OK"
            /\ (InvalidShares(shares) = {} /\ valid = quorum - 1)
                   => resp.status = "InsufficientShares" /\ resp.tally = << >>

\* two valid shares against a quorum of three were refused
C15_Witness ==
    /\ resp.op = "decrypt"
    /\ resp.request[3].quorum = 3
    /\ Cardinality(ValidShares(resp.request[4])) = 2
    /\ InvalidShares(resp.request[4]) = {}
    /\ resp.status = "InsufficientShares"

\* C16: a Decrypt carrying a share whose proof fails is answered
\* InvalidShare naming a guardian of such a share and yields no plaintext
\* tally, also when the remaining shares reach the quorum
C16_InvalidShareFailsClosed ==
    (resp.op = "decrypt" /\ InvalidShares(resp.request[4]) # {})
        => /\ resp.status = "InvalidShare"
           /\ resp.guardian \in InvalidShares(resp.request[4])
           /\ resp.tally = << >>

\* one bad share next to enough valid ones: refused, naming its guardian
C16_Witness ==
    /\ resp.op = "decrypt"
    /\ InvalidShares(resp.request[4]) = {"g2"}
    /\ Cardinality(ValidShares(resp.request[4])) >= resp.request[3].quorum
    /\ resp.status = "InvalidShare"
    /\ resp.guardian = "g2"

\* C17: the election_id, context and manifest stored for an election never
\* change, whatever operation runs
C17_BindingNeverChanges ==
    [][\A id \in DOMAIN store :
        /\ store'[id].election_id = store[id].election_id
        /\ store'[id].context = store[id].context
        /\ store'[id].manifest = store[id].manifest]_vars

\* C18: a repository connection is held only by a handler that is inside
\* its operation: every operation that has completed, with an answer or
\* with an error, has released it
C18_ConnectionsReleased ==
    conn = {p \in Procs : pc[p] = "fetched"}

\* a transition on a missing election has failed and released its
\* connection while another worker is still inside its own
C18_Witness ==
    /\ resp.op \in UpdateOps
    /\ resp.status = "Internal"
    /\ \E p \in Procs : pc[p] = "idle" /\ p \notin conn
    /\ \E q \in Procs : pc[q] = "fetched" /\ q \in conn

\* C19: an operation that is answered with an error leaves the repository
\* as it was: a refused Submit stores nothing, a transition on an election
\* that is not stored creates none and touches no other
C19_ErrorsLeaveRepository ==
    [][(resp' # resp /\ resp'.status # "OK") => store' = store]_vars

\* Publish on an election that is not stored failed next to two stored ones
C19_Witness ==
    /\ resp.op = "publish"
    /\ resp.status # "OK"
    /\ resp.election_id \notin DOMAIN store
    /\ Cardinality(DOMAIN store) = 2

====
